---- MODULE Spec2Model ----
(***************************************************************************)
(* A model of the financial chat server: the chat endpoint (the LLM        *)
(* function-dispatch loop of src/app/api/chat/route.js with its market     *)
(* data handlers), the ChatLog store, and the feedback endpoint            *)
(* (src/app/api/feedback/route.js).                                        *)
(*                                                                         *)
(* JavaScript values are modelled as follows.  An optional value           *)
(* (undefined / null or a value) is None or Some(v).  An array is a        *)
(* sequence, an object is a record; a property an object does not have is  *)
(* a field the record does not have, so that reading a property of         *)
(* undefined (a TypeError in JavaScript) is visible in the model.  A       *)
(* string that the code inspects character by character (a ticker symbol)  *)
(* is a sequence of one-character strings.  A call that may throw returns  *)
(* Returned(v) or Thrown(e).                                               *)
(***************************************************************************)
EXTENDS Integers, Sequences, FiniteSets, TLC

\* ------------------------------------------------------------------ bounds

\* Longest symbol list of a batch call in SpecBatch.
MaxSyms == 2
\* Longest symbol list the model's tool call carries in Spec.
MaxArgSyms == 1
\* Number of message ids (chat requests that reach uuidv4) in a behaviour.
MaxIds == 2
\* Concurrent chat requests and concurrent feedback requests in SpecLog.
NumReq == 2
NumFb == 2
\* Longest raw symbol drawn from the alphabet in SpecSymbols.
MaxSymLen == 3

\* ------------------------------------------------------------ JS values

None == <<>>
Some(v) == <<v>>
IsSome(o) == Len(o) > 0
Val(o) == o[1]

Returned(v) == [thrown |-> FALSE, value |-> v]
Thrown(e) == [thrown |-> TRUE, error |-> e]

Array(items) == [kind |-> "array", items |-> items]

\* `x || d` on an optional value that is truthy when present.
OrElse(o, d) == IF IsSome(o) THEN Val(o) ELSE d

\* ------------------------------------------------------------- symbols

TCS == <<"T", "C", "S">>
AAPL_O == <<"A", "A", "P", "L", ".", "O">>
BTC == <<"B", "T", "C">>
ETH_INR == <<"E", "T", "H", "-", "I", "N", "R">>
UpperLetters ==
    {"A", "B", "C", "D", "E", "F", "G", "H", "I", "J", "K", "L", "M",
     "N", "O", "P", "Q", "R", "S", "T", "U", "V", "W", "X", "Y", "Z"}

\* String.prototype.includes for a one-character needle.
Includes(s, c) == \E i \in 1..Len(s) : s[i] = c

\* /^[A-Z]+$/.test(s)
AllUpper(s) == Len(s) > 0 /\ \A i \in 1..Len(s) : s[i] \in UpperLetters

\* A normalisation that, like getTopStocks, does not test the letters.
normalizeEquityAnyCase(symbol) ==
    IF ~Includes(symbol, ".")
    THEN symbol \o <<".", "N", "S">>
    ELSE symbol

\* getStockPrice: the query symbol of a raw symbol.
normalizeEquity(symbol) ==
    IF ~Includes(symbol, ".") /\ AllUpper(symbol)
    THEN symbol \o <<".", "N", "S">>
    ELSE symbol

\* getCryptoPrice: the query symbol of a raw symbol.
normalizeCrypto(symbol) ==
    IF ~Includes(symbol, "-")
    THEN symbol \o <<"-", "U", "S", "D">>
    ELSE symbol

\* ------------------------------------------------- market-data upstream

\* What the upstream does for one symbol of a batch, in the order the code
\* calls it: the handler's own quote call (q1), the quote call inside
\* fetchRealtimeData (q2), then history, detailed info and news.  A quote
\* call returns a quote ("ok"), returns undefined ("none") or throws.
Prices == {1, 3}
UnderPrices == {None, Some(2)}

UpItem(q1, q2, price, hist, info, news) ==
    [q1 |-> q1, q2 |-> q2, price |-> price, hist |-> hist, info |-> info, news |-> news]

\* The item's quote call failed: the handler's call threw or gave nothing, or
\* the realtime call did.
QuoteFails(up) == up.q1 # "ok" \/ up.q2 # "ok"

\* fetchRealtimeData: null when the quote is missing or the call throws.
fetchRealtimeData(up) ==
    IF up.q2 = "ok"
    THEN Some([dates |-> <<"now">>, prices |-> <<up.price>>])
    ELSE None

\* fetchHistoricalData: the mapped series, [] when the call throws.
fetchHistoricalData(up) ==
    IF up.hist THEN <<[date |-> "d1", price |-> up.price]>> ELSE <<>>

\* fetchDetailedInfo: the summary, null when the call throws.
fetchDetailedInfo(up) == IF up.info THEN Some("summary") ELSE None

\* fetchNews: the news list, [] when the call throws.
fetchNews(up) == IF up.news THEN <<"headline">> ELSE <<>>

\* ------------------------------------------------------ result entries

ErrorEntry(symbol, msg) == [symbol |-> symbol, error |-> msg]

QuoteEntry(symbol, prices, history, detailedInfo, news) ==
    [symbol |-> symbol, prices |-> prices, history |-> history,
     detailedInfo |-> detailedInfo, news |-> news]

PlaceholderEntry == [message |-> "No cryptocurrencies found with a price under"]

IsErrorEntry(e) == "error" \in DOMAIN e
IsQuoteEntry(e) == "prices" \in DOMAIN e /\ ~IsErrorEntry(e)
IsPlaceholder(e) == "message" \in DOMAIN e

\* results.filter((r) => r.prices[0] < underPrice): reading prices[0] of an
\* entry without prices throws a TypeError.
filterUnder(results, underPrice) ==
    IF \E i \in 1..Len(results) : "prices" \notin DOMAIN results[i]
    THEN Thrown("TypeError")
    ELSE [thrown |-> FALSE, items |-> SelectSeq(results, LAMBDA r : r.prices[1] < underPrice)]

\* --------------------------------------------------------- getStockPrice

\* A loop body that gives up on a symbol when one of its enrichment lookups
\* fails.
stockEntryStrict(symbol, up) ==
    LET querySymbol == normalizeEquity(symbol)
        rtData == fetchRealtimeData(up)
    IN  IF up.q1 # "ok" \/ ~IsSome(rtData) \/ ~up.hist \/ ~up.info \/ ~up.news
        THEN ErrorEntry(symbol, "Unable to fetch data")
        ELSE QuoteEntry(querySymbol, Val(rtData).prices, fetchHistoricalData(up),
                        fetchDetailedInfo(up), fetchNews(up))

\* The body of getStockPrice's loop for one symbol: the entry it pushes.
stockEntry(symbol, up) ==
    LET querySymbol == normalizeEquity(symbol)
        rtData == fetchRealtimeData(up)
    IN  IF up.q1 = "throw" THEN ErrorEntry(symbol, "Unable to fetch data")
        ELSE IF ~IsSome(rtData) THEN ErrorEntry(symbol, "No real-time data available")
        ELSE IF up.q1 = "none" THEN ErrorEntry(symbol, "Unable to fetch data")
        ELSE QuoteEntry(querySymbol, Val(rtData).prices, fetchHistoricalData(up),
                        fetchDetailedInfo(up), fetchNews(up))

\* A loop that, like the trending loops, pushes nothing for a failed symbol.
RECURSIVE stockLoopSkipFailed(_, _, _)
stockLoopSkipFailed(symbols, ups, results) ==
    IF symbols = <<>> THEN results
    ELSE LET e == stockEntry(Head(symbols), Head(ups))
         IN  stockLoopSkipFailed(Tail(symbols), Tail(ups),
                                 IF IsErrorEntry(e) THEN results ELSE Append(results, e))

RECURSIVE stockLoop(_, _, _)
stockLoop(symbols, ups, results) ==
    IF symbols = <<>> THEN results
    ELSE stockLoop(Tail(symbols), Tail(ups), Append(results, stockEntry(Head(symbols), Head(ups))))

\* getStockPrice(symbols, underPrice), with the upstream's outcome per item.
getStockPrice(symbols, underPrice, ups) ==
    IF ~IsSome(symbols) THEN Thrown("TypeError")
    ELSE LET results == stockLoop(Val(symbols), ups, <<>>)
         IN  IF IsSome(underPrice)
             THEN LET f == filterUnder(results, Val(underPrice))
                  IN  IF f.thrown THEN f ELSE Returned(Array(f.items))
             ELSE Returned(Array(results))

\* -------------------------------------------------------- getCryptoPrice

\* The USDINR=X quote: a quote with a price, a quote without one, no quote,
\* or a throw.
RatePrice == {2}

\* A conversion whose failed lookup leaves no usable rate.
conversionRateZero(currency, rate) ==
    IF currency = "INR" /\ rate = "ok" THEN CHOOSE p \in RatePrice : TRUE ELSE 0

\* conversionRate of getCryptoPrice and getTopCryptos.
conversionRate(currency, rate) ==
    IF currency = "INR" /\ rate = "ok" THEN CHOOSE p \in RatePrice : TRUE ELSE 1

\* The body of getCryptoPrice's loop for one symbol.
cryptoEntry(rawSymbol, currency, rate, up) ==
    LET symbol == normalizeCrypto(rawSymbol)
        rtData == fetchRealtimeData(up)
        price == IF currency = "INR"
                 THEN Val(rtData).prices[1] * conversionRate(currency, rate)
                 ELSE Val(rtData).prices[1]
    IN  IF up.q1 = "throw" THEN ErrorEntry(symbol, "Unable to fetch data")
        ELSE IF ~IsSome(rtData) THEN ErrorEntry(symbol, "No real-time data available")
        ELSE IF up.q1 = "none" THEN ErrorEntry(symbol, "Unable to fetch data")
        ELSE QuoteEntry(symbol, <<price>>, fetchHistoricalData(up),
                        fetchDetailedInfo(up), fetchNews(up))

RECURSIVE cryptoLoop(_, _, _, _, _)
cryptoLoop(symbols, currency, rate, ups, results) ==
    IF symbols = <<>> THEN results
    ELSE cryptoLoop(Tail(symbols), currency, rate, Tail(ups),
                    Append(results, cryptoEntry(Head(symbols), currency, rate, Head(ups))))

\* getCryptoPrice(symbols, currency, underPrice).
getCryptoPrice(symbols, currency, underPrice, rate, ups) ==
    IF ~IsSome(symbols) THEN Thrown("TypeError")
    ELSE LET results == cryptoLoop(Val(symbols), currency, rate, ups, <<>>)
         IN  IF IsSome(underPrice)
             THEN LET f == filterUnder(results, Val(underPrice))
                  IN  IF f.thrown THEN f
                      ELSE IF Len(f.items) > 0 THEN Returned(Array(f.items))
                      ELSE Returned(Array(<<PlaceholderEntry>>))
             ELSE Returned(Array(results))

\* ---------------------------------------------------------- getTopStocks

ErrorObject(msg) == [kind |-> "object", error |-> msg]

Min(a, b) == IF a < b THEN a ELSE b

\* Array.prototype.slice(0, n) for n >= 0.
Slice(s, n) == SubSeq(s, 1, Min(n, Len(s)))

\* The landing-page request of getTopStocks: it answers with set-cookie
\* headers ("ok"), answers without them ("nocookie"), or throws.
CookieOutcomes == {"ok", "nocookie", "throw"}

\* The trending endpoint: it throws, or answers with NIFTY.data (rows) or
\* without it (None).
TrendingThrows == [out |-> "throw", rows |-> None]
TrendingRows(rows) == [out |-> "ok", rows |-> rows]

\* (sym) => (sym.includes('.') ? sym : sym + '.NS')
nseSuffix(sym) == IF Includes(sym, ".") THEN sym ELSE sym \o <<".", "N", "S">>

\* The body of getTopStocks' loop: a symbol whose fetch fails pushes nothing.
RECURSIVE topStocksLoop(_, _, _)
topStocksLoop(symbols, ups, results) ==
    IF symbols = <<>> THEN results
    ELSE LET symbol == Head(symbols)
             up == Head(ups)
             rtData == fetchRealtimeData(up)
             pushed ==
                 IF up.q1 = "throw" \/ ~IsSome(rtData) \/ up.q1 = "none"
                 THEN results
                 ELSE Append(results,
                             QuoteEntry(symbol, Val(rtData).prices, fetchHistoricalData(up),
                                        fetchDetailedInfo(up), fetchNews(up)))
         IN  topStocksLoop(Tail(symbols), Tail(ups), pushed)

\* getTopStocks(limit, underPrice).
getTopStocks(limit, underPrice, cookie, trending, ups) ==
    IF cookie = "throw" \/ trending.out = "throw"
    THEN Returned(ErrorObject("Unable to fetch trending Indian stocks from NSE."))
    ELSE IF ~IsSome(trending.rows) \/ Len(OrElse(trending.rows, <<>>)) = 0
    THEN Returned(ErrorObject("Unable to fetch trending Indian stocks from NSE."))
    ELSE LET sliced == Slice(Val(trending.rows), limit)
             symbols == [i \in 1..Len(sliced) |-> nseSuffix(sliced[i])]
             results == topStocksLoop(symbols, ups, <<>>)
         IN  IF IsSome(underPrice)
             THEN LET f == filterUnder(results, Val(underPrice))
                  IN  IF f.thrown THEN f ELSE Returned(Array(f.items))
             ELSE Returned(Array(results))

\* ---------------------------------------------------------- getTopCryptos

UpperOf ==
    [c \in {"b", "c", "e", "h", "t"} |->
        CASE c = "b" -> "B" [] c = "c" -> "C" [] c = "e" -> "E" [] c = "h" -> "H" [] c = "t" -> "T"]

\* String.prototype.toUpperCase on the model's alphabet.
toUpperCase(s) == [i \in 1..Len(s) |-> IF s[i] \in DOMAIN UpperOf THEN UpperOf[s[i]] ELSE s[i]]

btc == <<"b", "t", "c">>
eth == <<"e", "t", "h">>

\* The market-cap feed: it throws, answers with something that is no
\* non-empty array (None), or answers with at most per_page rows of its
\* ranking.
CoinsThrows == [out |-> "throw", rows |-> None]
CoinsRows(rows) == [out |-> "ok", rows |-> rows]
coinsMarkets(limit, feed) ==
    IF feed.out = "ok" /\ IsSome(feed.rows)
    THEN CoinsRows(Some(Slice(Val(feed.rows), limit)))
    ELSE feed

TopCryptoEntry(symbol, prices, history) ==
    [symbol |-> symbol, prices |-> prices, history |-> history]

\* The body of getTopCryptos' loop: a coin whose fetch fails pushes nothing.
RECURSIVE topCryptosLoop(_, _, _, _, _)
topCryptosLoop(coins, currency, rate, ups, results) ==
    IF coins = <<>> THEN results
    ELSE LET symbol == toUpperCase(Head(coins)) \o <<"-", "U", "S", "D">>
             up == Head(ups)
             rtData == fetchRealtimeData(up)
             price == IF currency = "INR"
                      THEN Val(rtData).prices[1] * conversionRate(currency, rate)
                      ELSE Val(rtData).prices[1]
             pushed ==
                 IF up.q1 = "throw" \/ ~IsSome(rtData) \/ up.q1 = "none"
                 THEN results
                 ELSE Append(results, TopCryptoEntry(symbol, <<price>>, fetchHistoricalData(up)))
         IN  topCryptosLoop(Tail(coins), currency, rate, Tail(ups), pushed)

\* getTopCryptos(limit, currency, underPrice).
getTopCryptos(limit, currency, underPrice, rate, feed, ups) ==
    LET coins == coinsMarkets(limit, feed)
    IN  IF coins.out = "throw" \/ ~IsSome(coins.rows) \/ Len(OrElse(coins.rows, <<>>)) = 0
        THEN Returned(ErrorObject("Unable to fetch top cryptos"))
        ELSE LET results == topCryptosLoop(Val(coins.rows), currency, rate, ups, <<>>)
             IN  IF IsSome(underPrice)
                 THEN LET f == filterUnder(results, Val(underPrice))
                      IN  IF f.thrown THEN Returned(ErrorObject("Unable to fetch top cryptos"))
                          ELSE IF Len(f.items) > 0 THEN Returned(Array(f.items))
                          ELSE Returned(Array(<<PlaceholderEntry>>))
                 ELSE Returned(Array(results))

\* ------------------------------------------------ composite handlers

\* newsHighlights keeps the first five headlines.
NewsHighlights == 5

\* fetchMarketNews / fetchCryptoMarketNews: n headlines, [] when the search
\* throws (n = 0).
marketNews(n) == [i \in 1..n |-> i]

\* getMarketUpdate(limit, underPrice).
getMarketUpdate(limit, underPrice, cookie, trending, ups, n) ==
    LET topStocks == getTopStocks(limit, underPrice, cookie, trending, ups)
    IN  IF topStocks.thrown THEN topStocks
        ELSE Returned([kind |-> "object", topStocks |-> topStocks.value,
                       newsHighlights |-> Slice(marketNews(n), NewsHighlights)])

\* getCryptoMarketUpdate(limit, currency, underPrice).
getCryptoMarketUpdate(limit, currency, underPrice, rate, feed, ups, n) ==
    LET topCryptos == getTopCryptos(limit, currency, underPrice, rate, feed, ups)
    IN  IF topCryptos.thrown THEN topCryptos
        ELSE Returned([kind |-> "object", topCryptos |-> topCryptos.value,
                       newsHighlights |-> Slice(marketNews(n), NewsHighlights)])

\* --------------------------------------------------------- getCompanyInfo

CompanyDoc ==
    [kind |-> "object", name |-> "Profit Flow", features |-> "features text",
     pricing |-> "pricing text", benefits |-> "benefits text",
     support |-> "support text", faq |-> "faq text"]

\* { [category]: companyDoc[category] }
Section(doc, category) ==
    [kind |-> "object", key |-> category,
     data |-> IF category \in DOMAIN doc THEN Some(doc[category]) ELSE None]

\* A lookup that does not fold 'subscription' into 'pricing'.
getCompanyInfoNoAlias(args, doc) ==
    LET category == OrElse(args.category, "all")
    IN  IF ~IsSome(doc) THEN Thrown("Company information not found in the database.")
        ELSE IF category = "all" THEN Returned(Val(doc))
        ELSE Returned(Section(Val(doc), category))

\* getCompanyInfo(args), with the document findOne yields (None: no document).
getCompanyInfo(args, doc) ==
    LET requested == OrElse(args.category, "all")
        category == IF requested = "subscription" THEN "pricing" ELSE requested
    IN  IF ~IsSome(doc) THEN Thrown("Company information not found in the database.")
        ELSE IF category = "all" THEN Returned(Val(doc))
        ELSE Returned(Section(Val(doc), category))

\* ------------------------------------------------------- the LLM boundary

\* A tool call's parsed arguments: every property is optional.
Args(symbols, underPrice, limit, currency, category) ==
    [symbols |-> symbols, underPrice |-> underPrice, limit |-> limit,
     currency |-> currency, category |-> category]

EmptyArgs == Args(None, None, None, None, None)

\* message.function_call.arguments: absent or empty (None), text that is not
\* JSON, or the JSON text of an arguments object.
NotJson == [json |-> FALSE]
Json(obj) == [json |-> TRUE, obj |-> obj]

\* JSON.parse(message.function_call.arguments || '{}')
parseArguments(arguments) ==
    IF ~IsSome(arguments) THEN Returned(EmptyArgs)
    ELSE IF ~Val(arguments).json THEN Thrown("SyntaxError")
    ELSE Returned(Val(arguments).obj)

\* The first completion: the call throws, or the message carries content
\* (possibly empty) and no function_call, or it carries a function_call.
LlmThrows == [out |-> "throw"]
LlmText(content) == [out |-> "text", content |-> content]
LlmCall(name, arguments) == [out |-> "call", name |-> name, arguments |-> arguments]

ToolNames ==
    {"get_stock_price", "get_top_stocks", "get_crypto_price", "get_top_cryptos",
     "get_company_info", "get_market_update", "get_crypto_market_update"}

\* A conversation message, and messages.filter(role === 'user') ... .content.
Message(role, content) == [role |-> role, content |-> content]

RECURSIVE lastUserMessage(_)
lastUserMessage(messages) ==
    IF messages = <<>> THEN ""
    ELSE IF messages[Len(messages)].role = "user" THEN messages[Len(messages)].content
    ELSE lastUserMessage(SubSeq(messages, 1, Len(messages) - 1))

\* ------------------------------------------------------------ dispatch

\* What the handlers' upstreams do during one handler call.
Env(ups, rate, cookie, trending, feed, news, doc) ==
    [ups |-> ups, rate |-> rate, cookie |-> cookie, trending |-> trending,
     feed |-> feed, news |-> news, doc |-> doc]

\* The tool result when no case of the switch matches.
NotSupported == ErrorObject("Function not supported")

\* args.limit || 2
DispatchLimit == 2

limitOf(args) == IF IsSome(args.limit) /\ Val(args.limit) # 0 THEN Val(args.limit) ELSE DispatchLimit

\* The switch of POST: the handler's outcome for a function name.
callHandler(functionName, args, env) ==
    CASE functionName = "get_stock_price" ->
            getStockPrice(args.symbols, args.underPrice, env.ups)
      [] functionName = "get_top_stocks" ->
            getTopStocks(limitOf(args), args.underPrice, env.cookie, env.trending, env.ups)
      [] functionName = "get_crypto_price" ->
            getCryptoPrice(args.symbols, OrElse(args.currency, "USD"), args.underPrice,
                           env.rate, env.ups)
      [] functionName = "get_top_cryptos" ->
            getTopCryptos(limitOf(args), OrElse(args.currency, "USD"), args.underPrice,
                          env.rate, env.feed, env.ups)
      [] functionName = "get_company_info" ->
            getCompanyInfo(args, env.doc)
      [] functionName = "get_market_update" ->
            getMarketUpdate(limitOf(args), args.underPrice, env.cookie, env.trending,
                            env.ups, env.news)
      [] functionName = "get_crypto_market_update" ->
            getCryptoMarketUpdate(limitOf(args), OrElse(args.currency, "USD"), args.underPrice,
                                  env.rate, env.feed, env.ups, env.news)
      [] OTHER -> Returned(NotSupported)

\* A narration that uses the company instruction for every tool.
narrationInstructionCompany(functionName) == "company"

\* The second system instruction of the narration call.
narrationInstruction(functionName) ==
    IF functionName = "get_company_info" THEN "company" ELSE "market"

\* ---------------------------------------------------------------- state

VARIABLES
    nodeEnv,    \* process.env.NODE_ENV of the deployment
    chat,       \* per chat request: the locals of POST and where it stands
    chatLog,    \* the ChatLog table: messageId -> item
    nextId,     \* the source of uuidv4: the next fresh id
    clock,      \* the source of new Date(): the next timestamp
    fb,         \* per feedback request: the locals of PUT and where it stands
    bCall,      \* SpecBatch: the handler call under test
    bResult,    \* SpecBatch: its outcome
    ui          \* the Chat component: its state, its last render, its requests

vars == <<nodeEnv, chat, chatLog, nextId, clock, fb, bCall, bResult, ui>>

Reqs == 1..NumReq
Fbs == 1..NumFb
Ids == 1..MaxIds

IdleChat ==
    [pc |-> "idle", messages |-> None, functionName |-> None, args |-> None,
     messageId |-> None, functionResponse |-> None, instruction |-> None,
     logItem |-> None, logError |-> None, response |-> None,
     llmCalls |-> 0, handlerCalls |-> 0, logWrites |-> 0]

IdleFb ==
    [pc |-> "idle", messageId |-> None, action |-> None, reportMessage |-> None,
     command |-> None, response |-> None]

\* The Chat component as mounted: useState([]) and useState(false), the first
\* render showing both, no sendMessage call made and no request sent.
UiIdle ==
    [messages |-> <<>>, loading |-> FALSE,
     shownMessages |-> <<>>, shownLoading |-> FALSE,
     calls |-> 0, sends |-> <<>>]

\* ------------------------------------------------------- chat responses

GenericError == "Financial data currently unavailable. Please try again later."

\* A catch block that answers with a success status.
ErrorResponseOk(message) ==
    [status |-> 200, error |-> GenericError,
     details |-> IF nodeEnv = "development" THEN Some(message) ELSE None]

\* The catch block of POST.
ErrorResponse(message) ==
    [status |-> 500, error |-> GenericError,
     details |-> IF nodeEnv = "development" THEN Some(message) ELSE None]

DefaultContent == "I'm here to help! Could you please clarify your request?"

\* A direct answer that also returns the generated message id.
DirectResponseWithId(content) ==
    [status |-> 200, role |-> "assistant", content |-> OrElse(content, DefaultContent),
     messageId |-> nextId]

\* The response of the branch without a function call.
DirectResponse(content) ==
    [status |-> 200, role |-> "assistant", content |-> OrElse(content, DefaultContent)]

\* The response of the function-call branch.
CompleteResponse(content, rawData, functionName, messageId) ==
    [status |-> 200, role |-> "assistant", content |-> content, rawData |-> rawData,
     functionName |-> functionName, messageId |-> messageId]

\* A log record whose feedback starts out set.
LogItemLiked(messageId, timestamp, userQuery, chatbotResponse) ==
    [messageId |-> messageId, timestamp |-> timestamp, userQuery |-> userQuery,
     chatbotResponse |-> chatbotResponse,
     actions |-> [like |-> TRUE, dislike |-> FALSE, report |-> FALSE, reportMessage |-> ""]]

\* The log record POST writes.
LogItem(messageId, timestamp, userQuery, chatbotResponse) ==
    [messageId |-> messageId, timestamp |-> timestamp, userQuery |-> userQuery,
     chatbotResponse |-> chatbotResponse,
     actions |-> [like |-> FALSE, dislike |-> FALSE, report |-> FALSE, reportMessage |-> ""]]

\* A store that acknowledges a put and keeps nothing.
putItemLost(table, item) == table

\* An update that is applied to every record of the table.
updateItemEveryRecord(table, command) ==
    IF command.key \notin DOMAIN table
    THEN [thrown |-> TRUE, error |-> "The document path provided in the update expression is invalid for update",
          table |-> table]
    ELSE [thrown |-> FALSE, error |-> "",
          table |-> [k \in DOMAIN table |->
                        [table[k] EXCEPT !.actions =
                            [a \in DOMAIN @ \cup DOMAIN command.set |->
                                IF a \in DOMAIN command.set THEN command.set[a] ELSE @[a]]]]]

\* PutCommand on the ChatLog table: the item replaces what the key held.
putItem(table, item) ==
    [k \in DOMAIN table \cup {item.messageId} |->
        IF k = item.messageId THEN item ELSE table[k]]

Fail(r, message) ==
    chat' = [chat EXCEPT ![r].pc = "done", ![r].response = Some(ErrorResponse(message))]

\* ---------------------------------------------------- the chat endpoint

\* POST is entered: request.json() yields the messages (or throws), and the
\* first completion is requested.
ChatPost(r, bodies) ==
    /\ chat[r].pc = "idle"
    /\ (nextId - 1) + Cardinality({q \in Reqs : chat[q].pc = "AwaitingModelDecision"}) < MaxIds
    /\ \E body \in bodies :
         IF ~IsSome(body)
         THEN Fail(r, "Unexpected end of JSON input")
         ELSE chat' = [chat EXCEPT ![r].pc = "AwaitingModelDecision",
                                   ![r].messages = body,
                                   ![r].llmCalls = 1]
    /\ UNCHANGED <<nodeEnv, chatLog, nextId, clock, fb, bCall, bResult, ui>>

\* The first completion returns: the message id is generated, and POST either
\* answers directly, or parses the arguments and enters the switch.  A case of
\* the switch awaits its handler; the default case has its result at once and
\* goes on to the narration call.
ModelDecision(r, decisions) ==
    /\ chat[r].pc = "AwaitingModelDecision"
    /\ \E d \in decisions :
         IF d.out = "throw"
         THEN /\ Fail(r, "completion failed")
              /\ UNCHANGED nextId
         ELSE /\ nextId' = nextId + 1
              /\ IF d.out = "text"
                 THEN chat' = [chat EXCEPT ![r].pc = "done",
                                           ![r].messageId = Some(nextId),
                                           ![r].response = Some(DirectResponse(d.content))]
                 ELSE LET parsed == parseArguments(d.arguments)
                      IN  IF parsed.thrown
                          THEN chat' = [chat EXCEPT ![r].pc = "done",
                                                    ![r].messageId = Some(nextId),
                                                    ![r].functionName = Some(d.name),
                                                    ![r].response = Some(ErrorResponse(parsed.error))]
                          ELSE IF d.name \in ToolNames
                          THEN chat' = [chat EXCEPT ![r].pc = "ToolExecuting",
                                                    ![r].messageId = Some(nextId),
                                                    ![r].functionName = Some(d.name),
                                                    ![r].args = Some(parsed.value),
                                                    ![r].handlerCalls = 1]
                          ELSE chat' = [chat EXCEPT ![r].pc = "AwaitingNarration",
                                                    ![r].messageId = Some(nextId),
                                                    ![r].functionName = Some(d.name),
                                                    ![r].args = Some(parsed.value),
                                                    ![r].functionResponse =
                                                        Some(callHandler(d.name, parsed.value, None).value),
                                                    ![r].instruction = Some(narrationInstruction(d.name)),
                                                    ![r].llmCalls = 2]
    /\ UNCHANGED <<nodeEnv, chatLog, clock, fb, bCall, bResult, ui>>

\* The awaited handler returns its result, and the narration completion is
\* requested; or it throws.
HandlerReturn(r, envs) ==
    /\ chat[r].pc = "ToolExecuting"
    /\ \E env \in envs :
         LET out == callHandler(Val(chat[r].functionName), Val(chat[r].args), env)
         IN  IF out.thrown
             THEN Fail(r, out.error)
             ELSE chat' = [chat EXCEPT ![r].pc = "AwaitingNarration",
                                       ![r].functionResponse = Some(out.value),
                                       ![r].instruction =
                                           Some(narrationInstruction(Val(chat[r].functionName))),
                                       ![r].llmCalls = @ + 1]
    /\ UNCHANGED <<nodeEnv, chatLog, nextId, clock, fb, bCall, bResult, ui>>

\* The narration completion returns (or throws): the log item is built and
\* its PutCommand is sent.
NarrationReturn(r) ==
    /\ chat[r].pc = "AwaitingNarration"
    /\ \E ok \in BOOLEAN :
         IF ~ok
         THEN /\ Fail(r, "completion failed")
              /\ UNCHANGED clock
         ELSE /\ chat' = [chat EXCEPT ![r].pc = "Logging",
                                      ![r].logItem =
                                          Some(LogItem(Val(chat[r].messageId), clock,
                                                       lastUserMessage(Val(chat[r].messages)),
                                                       "narration")),
                                      ![r].logWrites = @ + 1]
              /\ clock' = clock + 1
    /\ UNCHANGED <<nodeEnv, chatLog, nextId, fb, bCall, bResult, ui>>

\* A store step whose failure aborts the request.
StorePutAborting(r) ==
    /\ chat[r].pc = "Logging"
    /\ \E ok \in BOOLEAN :
         IF ok
         THEN /\ chatLog' = putItem(chatLog, Val(chat[r].logItem))
              /\ chat' = [chat EXCEPT ![r].pc = "Logged"]
         ELSE /\ chatLog' = chatLog
              /\ Fail(r, "store unreachable")
    /\ UNCHANGED <<nodeEnv, nextId, clock, fb, bCall, bResult, ui>>

\* The store serves the PutCommand, or the send throws; POST logs the error
\* and goes on either way.
StorePut(r) ==
    /\ chat[r].pc = "Logging"
    /\ \E ok \in BOOLEAN :
         /\ chatLog' = IF ok THEN putItem(chatLog, Val(chat[r].logItem)) ELSE chatLog
         /\ chat' = [chat EXCEPT ![r].pc = "Logged",
                                 ![r].logError =
                                     IF ok THEN None ELSE Some("Error writing log to DynamoDB")]
    /\ UNCHANGED <<nodeEnv, nextId, clock, fb, bCall, bResult, ui>>

\* A return that does not wait for the store.
RespondBeforePut(r) ==
    /\ chat[r].pc = "Logging"
    /\ chat' = [chat EXCEPT ![r].pc = "done",
                            ![r].response =
                                Some(CompleteResponse(Val(chat[r].logItem).chatbotResponse,
                                                      Val(chat[r].functionResponse),
                                                      Val(chat[r].functionName),
                                                      Val(chat[r].messageId)))]
    /\ UNCHANGED <<nodeEnv, chatLog, nextId, clock, fb, bCall, bResult, ui>>

\* POST returns the response of the function-call branch.
Respond(r) ==
    /\ chat[r].pc = "Logged"
    /\ chat' = [chat EXCEPT ![r].pc = "done",
                            ![r].response =
                                Some(CompleteResponse(Val(chat[r].logItem).chatbotResponse,
                                                      Val(chat[r].functionResponse),
                                                      Val(chat[r].functionName),
                                                      Val(chat[r].messageId)))]
    /\ UNCHANGED <<nodeEnv, chatLog, nextId, clock, fb, bCall, bResult, ui>>

\* The client has the response; the request is over.
ChatClose(r) ==
    /\ chat[r].pc = "done"
    /\ chat' = [chat EXCEPT ![r] = IdleChat]
    /\ UNCHANGED <<nodeEnv, chatLog, nextId, clock, fb, bCall, bResult, ui>>

\* ------------------------------------------------ the feedback endpoint

FeedbackActions == {"like", "dislike", "report"}

\* A validation that lets every action through.
validActionAny(action) == TRUE

\* ['like', 'dislike', 'report'].includes(action)
validAction(action) == action \in FeedbackActions

\* An update expression that sets the chosen flag and leaves the opposite one.
updateExpressionNoClear(action, reportMessage) ==
    LET base == (action :> TRUE)
    IN  IF action = "report"
        THEN base @@ ("reportMessage" :> OrElse(reportMessage, ""))
        ELSE base

\* An update expression whose report also resets the two votes.
updateExpressionReportClears(action, reportMessage) ==
    LET base == (action :> TRUE)
    IN  CASE action = "like" -> base @@ ("dislike" :> FALSE)
          [] action = "dislike" -> base @@ ("like" :> FALSE)
          [] action = "report" ->
                base @@ ("reportMessage" :> OrElse(reportMessage, ""))
                     @@ ("like" :> FALSE) @@ ("dislike" :> FALSE)
          [] OTHER -> base

\* An update expression whose like withdraws an earlier report.
updateExpressionLikeClearsReport(action, reportMessage) ==
    LET base == (action :> TRUE)
    IN  CASE action = "like" -> base @@ ("dislike" :> FALSE) @@ ("report" :> FALSE)
          [] action = "dislike" -> base @@ ("like" :> FALSE)
          [] action = "report" -> base @@ ("reportMessage" :> OrElse(reportMessage, ""))
          [] OTHER -> base

\* The SET clauses of the update expression PUT builds for an action: the
\* attributes of `actions` it assigns.
updateExpression(action, reportMessage) ==
    LET base == (action :> TRUE)
    IN  CASE action = "like" -> base @@ ("dislike" :> FALSE)
          [] action = "dislike" -> base @@ ("like" :> FALSE)
          [] action = "report" -> base @@ ("reportMessage" :> OrElse(reportMessage, ""))
          [] OTHER -> base

UpdateItemCommand(messageId, action, reportMessage) ==
    [key |-> messageId, set |-> updateExpression(action, reportMessage)]

\* The store serving an UpdateItemCommand.  The SET paths lie inside the map
\* attribute `actions`: for a key without an item the path does not exist and
\* the store rejects the update, writing nothing; for an existing item all the
\* clauses are applied in one atomic step.
updateItem(table, command) ==
    IF command.key \notin DOMAIN table
    THEN [thrown |-> TRUE, error |-> "The document path provided in the update expression is invalid for update",
          table |-> table]
    ELSE [thrown |-> FALSE, error |-> "",
          table |-> [table EXCEPT ![command.key].actions =
                        [a \in DOMAIN @ \cup DOMAIN command.set |->
                            IF a \in DOMAIN command.set THEN command.set[a] ELSE @[a]]]]

InvalidAction == [status |-> 400, error |-> "Invalid action"]

FeedbackUpdated(messageId) ==
    [status |-> 200, message |-> "Feedback updated successfully", messageId |-> messageId]

\* The catch block of PUT.
FeedbackFailed(message) ==
    [status |-> 500, error |-> "Failed to update feedback", details |-> Some(message)]

\* PUT is entered: the action is validated, and for a valid action the update
\* command is built and sent.
FeedbackPut(f, ids, actions) ==
    /\ fb[f].pc = "idle"
    /\ \E id \in ids, action \in actions, reportMessage \in {None, Some("spam")} :
         /\ IsSome(reportMessage) => action = "report"
         /\ IF ~validAction(action)
            THEN fb' = [fb EXCEPT ![f] = [pc |-> "done", messageId |-> Some(id),
                                          action |-> Some(action),
                                          reportMessage |-> reportMessage,
                                          command |-> None,
                                          response |-> Some(InvalidAction)]]
            ELSE fb' = [fb EXCEPT ![f] = [pc |-> "sent", messageId |-> Some(id),
                                          action |-> Some(action),
                                          reportMessage |-> reportMessage,
                                          command |-> Some(UpdateItemCommand(id, action, reportMessage)),
                                          response |-> None]]
    /\ UNCHANGED <<nodeEnv, chat, chatLog, nextId, clock, bCall, bResult, ui>>

\* The store serves the update (or cannot be reached), and PUT answers.
StoreUpdate(f) ==
    /\ fb[f].pc = "sent"
    /\ \E reachable \in BOOLEAN :
         LET out == IF reachable
                    THEN updateItem(chatLog, Val(fb[f].command))
                    ELSE [thrown |-> TRUE, error |-> "store unreachable", table |-> chatLog]
         IN  /\ chatLog' = out.table
             /\ fb' = [fb EXCEPT ![f].pc = "done",
                                 ![f].response =
                                     IF out.thrown
                                     THEN Some(FeedbackFailed(out.error))
                                     ELSE Some(FeedbackUpdated(Val(fb[f].messageId)))]
    /\ UNCHANGED <<nodeEnv, chat, nextId, clock, bCall, bResult, ui>>

\* The client has the response; the request is over.
FeedbackClose(f) ==
    /\ fb[f].pc = "done"
    /\ fb' = [fb EXCEPT ![f] = IdleFb]
    /\ UNCHANGED <<nodeEnv, chat, chatLog, nextId, clock, bCall, bResult, ui>>

\* ------------------------------------------------------- specifications

SeqsOfLen(S, n) == [1..n -> S]

RECURSIVE SeqsUpTo(_, _)
SeqsUpTo(S, n) == IF n = 0 THEN {<<>>} ELSE SeqsUpTo(S, n - 1) \cup SeqsOfLen(S, n)

Init ==
    /\ nodeEnv \in {"development", "production"}
    /\ chat = [r \in Reqs |-> IdleChat]
    /\ chatLog = <<>>
    /\ nextId = 1
    /\ clock = 1
    /\ fb = [f \in Fbs |-> IdleFb]
    /\ bCall = None
    /\ bResult = None
    /\ ui = UiIdle

\* The request bodies of Spec: no readable body, a conversation that ends
\* with a user message, and one without any user message.
MainBodies ==
    {None,
     Some(<<Message("user", "q1"), Message("assistant", "a1"), Message("user", "q2")>>),
     Some(<<Message("assistant", "a1")>>)}

OptionOf(S) == {None} \cup {Some(x) : x \in S}

StockCalls ==
    {LlmCall("get_stock_price", Some(Json(Args(sy, u, None, None, None)))) :
        sy \in OptionOf(SeqsUpTo({TCS, AAPL_O}, MaxArgSyms)), u \in UnderPrices}

CryptoCalls ==
    {LlmCall("get_crypto_price", Some(Json(Args(Some(sy), u, None, c, None)))) :
        sy \in SeqsUpTo({BTC, ETH_INR}, MaxArgSyms), u \in UnderPrices,
        c \in {None, Some("INR")}}

TopCalls ==
    {LlmCall(n, Some(Json(Args(None, u, l, None, None)))) :
        n \in {"get_top_stocks", "get_top_cryptos"}, u \in UnderPrices,
        l \in {None, Some(1)}}
    \cup {LlmCall("get_top_cryptos", Some(Json(Args(None, None, None, Some("INR"), None))))}

UpdateCalls ==
    {LlmCall(n, Some(Json(Args(None, u, None, None, None)))) :
        n \in {"get_market_update", "get_crypto_market_update"}, u \in UnderPrices}

CompanyCalls ==
    {LlmCall("get_company_info", None)}
    \cup {LlmCall("get_company_info", Some(Json(Args(None, None, None, None, Some(c))))) :
            c \in {"pricing", "subscription", "careers"}}

\* A tool the switch has no case for, with and without arguments.
UnknownCalls ==
    {LlmCall("get_weather", None), LlmCall("get_weather", Some(Json(EmptyArgs)))}

\* A tool call whose argument text is not JSON.
MalformedCalls ==
    {LlmCall(n, Some(NotJson)) : n \in {"get_stock_price", "get_company_info", "get_weather"}}

TextDecisions == {LlmThrows, LlmText(None), LlmText(Some("hello"))}

MainDecisions ==
    TextDecisions \cup StockCalls \cup CryptoCalls \cup TopCalls \cup UpdateCalls
    \cup CompanyCalls \cup UnknownCalls \cup MalformedCalls
    \cup {LlmCall("get_stock_price", None)}

\* Per-item upstream outcomes of Spec: two prices, and the two ways a quote
\* fails (the handler's call throws; the realtime call yields nothing).
MainUpItems ==
    {UpItem("ok", "ok", 1, TRUE, TRUE, TRUE), UpItem("ok", "ok", 3, TRUE, TRUE, TRUE),
     UpItem("throw", "ok", 1, TRUE, TRUE, TRUE), UpItem("ok", "none", 1, TRUE, TRUE, TRUE)}

MainTrending ==
    {TrendingThrows, TrendingRows(None), TrendingRows(Some(<<>>)),
     TrendingRows(Some(<<TCS, AAPL_O>>))}

MainFeeds == {CoinsThrows, CoinsRows(None), CoinsRows(Some(<<btc, eth>>))}

\* The upstream outcomes a handler call of Spec and SpecLog may meet.
EnvsFor(functionName, args) ==
    CASE functionName = "get_stock_price" ->
            {Env(ups, "ok", "ok", TrendingThrows, CoinsThrows, 0, None) :
                ups \in SeqsOfLen(MainUpItems, Len(OrElse(args.symbols, <<>>)))}
      [] functionName = "get_crypto_price" ->
            {Env(ups, rate, "ok", TrendingThrows, CoinsThrows, 0, None) :
                ups \in SeqsOfLen(MainUpItems, Len(OrElse(args.symbols, <<>>))),
                rate \in IF args.currency = Some("INR") THEN {"ok", "throw"} ELSE {"ok"}}
      [] functionName \in {"get_top_stocks", "get_market_update"} ->
            {Env(ups, "ok", cookie, trending, CoinsThrows, n, None) :
                ups \in SeqsOfLen(MainUpItems, 2), cookie \in CookieOutcomes,
                trending \in MainTrending,
                n \in IF functionName = "get_market_update" THEN {0, 6} ELSE {0}}
      [] functionName \in {"get_top_cryptos", "get_crypto_market_update"} ->
            {Env(ups, rate, "ok", TrendingThrows, feed, n, None) :
                ups \in SeqsOfLen(MainUpItems, 2),
                rate \in IF args.currency = Some("INR") THEN {"ok", "throw"} ELSE {"ok"},
                feed \in MainFeeds,
                n \in IF functionName = "get_crypto_market_update" THEN {0, 6} ELSE {0}}
      [] functionName = "get_company_info" ->
            {Env(<<>>, "ok", "ok", TrendingThrows, CoinsThrows, 0, doc) :
                doc \in {None, Some(CompanyDoc)}}

\* The chat endpoint serving one request after another, with every tool.
\* The upstream outcomes the handler awaited by request r can meet.
EnvsOf(r) ==
    IF IsSome(chat[r].functionName) /\ IsSome(chat[r].args)
    THEN EnvsFor(Val(chat[r].functionName), Val(chat[r].args))
    ELSE {}

MainReqs == {1}

Next ==
    \E r \in MainReqs :
        \/ ChatPost(r, MainBodies)
        \/ ModelDecision(r, MainDecisions)
        \/ HandlerReturn(r, EnvsOf(r))
        \/ NarrationReturn(r)
        \/ StorePut(r)
        \/ Respond(r)
        \/ ChatClose(r)

Spec == Init /\ [][Next]_vars

\* The chat endpoint and the feedback endpoint serving concurrent requests
\* over the ChatLog table; the model's decisions are a direct answer, a tool
\* without a case in the switch, and get_company_info.
LogBodies == {Some(<<Message("user", "q1")>>)}

LogDecisions ==
    {LlmThrows, LlmText(Some("hello")), LlmCall("get_weather", None),
     LlmCall("get_company_info", None)}

\* An action name PUT rejects.
FeedbackInputs == FeedbackActions \cup {"love"}

\* One chat request at a time beside the concurrent feedback requests.
LogReqs == {1}

InitLog ==
    /\ Init
    /\ nodeEnv = "production"

NextLog ==
    \/ \E r \in LogReqs :
        \/ ChatPost(r, LogBodies)
        \/ ModelDecision(r, LogDecisions)
        \/ HandlerReturn(r, EnvsOf(r))
        \/ NarrationReturn(r)
        \/ StorePut(r)
        \/ Respond(r)
        \/ ChatClose(r)
    \/ \E f \in Fbs :
        \/ FeedbackPut(f, Ids, FeedbackInputs)
        \/ StoreUpdate(f)
        \/ FeedbackClose(f)

SpecLog == InitLog /\ [][NextLog]_vars

\* Concurrent chat requests, each a get_company_info turn, beside concurrent
\* feedback requests over the ChatLog table.
ConcDecisions == {LlmCall("get_company_info", None)}

ConcFeedbackInputs == {"like", "report"}

NextConc ==
    \/ \E r \in Reqs :
        \/ ChatPost(r, LogBodies)
        \/ ModelDecision(r, ConcDecisions)
        \/ HandlerReturn(r, EnvsOf(r))
        \/ NarrationReturn(r)
        \/ StorePut(r)
        \/ Respond(r)
        \/ ChatClose(r)
    \/ \E f \in Fbs :
        \/ FeedbackPut(f, Ids, ConcFeedbackInputs)
        \/ StoreUpdate(f)
        \/ FeedbackClose(f)

SpecConc == InitLog /\ [][NextConc]_vars

\* The batch handlers on their own: a call is drawn with the upstream's
\* outcome for each of its symbols, and the handler is applied to it.
BatchSymbols == {TCS, AAPL_O, ETH_INR}

\* Per-item upstream outcomes: the quote succeeds with either price and at
\* most one enrichment lookup fails, or one of the two quote calls fails.
BatchUpItems ==
    {UpItem("ok", "ok", p, e[1], e[2], e[3]) :
        p \in Prices,
        e \in {<<TRUE, TRUE, TRUE>>, <<FALSE, TRUE, TRUE>>,
               <<TRUE, FALSE, TRUE>>, <<TRUE, TRUE, FALSE>>}}
    \cup {UpItem("throw", "ok", 1, TRUE, TRUE, TRUE), UpItem("ok", "throw", 1, TRUE, TRUE, TRUE),
          UpItem("ok", "none", 1, TRUE, TRUE, TRUE), UpItem("none", "ok", 1, TRUE, TRUE, TRUE)}

BatchCall(name, args, env) == [name |-> name, args |-> args, env |-> env]

BatchStockCalls ==
    {BatchCall("get_stock_price", Args(Some(sy), u, None, None, None),
               Env(ups, "ok", "ok", TrendingThrows, CoinsThrows, 0, None)) :
        sy \in SeqsUpTo(BatchSymbols, MaxSyms), u \in UnderPrices,
        ups \in SeqsUpTo(BatchUpItems, MaxSyms)}

BatchCryptoCalls ==
    {BatchCall("get_crypto_price", Args(Some(sy), u, None, c[1], None),
               Env(ups, c[2], "ok", TrendingThrows, CoinsThrows, 0, None)) :
        sy \in SeqsUpTo(BatchSymbols, MaxSyms), u \in UnderPrices,
        ups \in SeqsUpTo(BatchUpItems, MaxSyms),
        c \in {<<None, "ok">>, <<Some("INR"), "ok">>, <<Some("INR"), "throw">>}}

BatchCalls ==
    {c \in BatchStockCalls \cup BatchCryptoCalls : Len(c.env.ups) = Len(Val(c.args.symbols))}

InitBatch ==
    /\ nodeEnv = "production"
    /\ chat = [r \in Reqs |-> IdleChat]
    /\ chatLog = <<>>
    /\ nextId = 1
    /\ clock = 1
    /\ fb = [f \in Fbs |-> IdleFb]
    /\ bCall \in {Some(c) : c \in BatchCalls}
    /\ bResult = None
    /\ ui = UiIdle

CallGetStockPrice ==
    /\ bResult = None
    /\ Val(bCall).name = "get_stock_price"
    /\ bResult' = Some(callHandler(Val(bCall).name, Val(bCall).args, Val(bCall).env))
    /\ UNCHANGED <<nodeEnv, chat, chatLog, nextId, clock, fb, bCall, ui>>

CallGetCryptoPrice ==
    /\ bResult = None
    /\ Val(bCall).name = "get_crypto_price"
    /\ bResult' = Some(callHandler(Val(bCall).name, Val(bCall).args, Val(bCall).env))
    /\ UNCHANGED <<nodeEnv, chat, chatLog, nextId, clock, fb, bCall, ui>>

NextBatch ==
    \/ CallGetStockPrice
    \/ CallGetCryptoPrice

SpecBatch == InitBatch /\ [][NextBatch]_vars

\* The trending handlers, the currency conversion and the company lookup on
\* their own: a call is drawn with what its upstreams do, and the handler is
\* applied to it.
RateOutcomes == {"ok", "noprice", "none", "throw"}

\* The currency argument with the outcomes of the rate lookup it causes.
CurrencyRates ==
    {<<None, "ok">>} \cup {<<Some("INR"), rate>> : rate \in RateOutcomes}

HandlerTopStocksCalls ==
    {BatchCall("get_top_stocks", Args(None, u, l, None, None),
               Env(ups, "ok", cookie, trending, CoinsThrows, 0, None)) :
        u \in UnderPrices, l \in {None, Some(1)}, ups \in SeqsOfLen(MainUpItems, 2),
        cookie \in CookieOutcomes, trending \in MainTrending}

HandlerTopCryptosCalls ==
    {BatchCall("get_top_cryptos", Args(None, u, l, c[1], None),
               Env(ups, c[2], "ok", TrendingThrows, feed, 0, None)) :
        u \in UnderPrices, l \in {None, Some(1)}, ups \in SeqsOfLen(MainUpItems, 2),
        c \in CurrencyRates, feed \in MainFeeds}

HandlerCryptoCalls ==
    {BatchCall("get_crypto_price", Args(Some(<<sy>>), u, None, c[1], None),
               Env(<<up>>, c[2], "ok", TrendingThrows, CoinsThrows, 0, None)) :
        sy \in {BTC, ETH_INR}, u \in UnderPrices, up \in MainUpItems, c \in CurrencyRates}

\* A stored document without a pricing section, beside the full one.
CompanyDocNoPricing ==
    [kind |-> "object", name |-> "Profit Flow", features |-> "features text",
     benefits |-> "benefits text", support |-> "support text", faq |-> "faq text"]

HandlerCompanyCalls ==
    {BatchCall("get_company_info", Args(None, None, None, None, c),
               Env(<<>>, "ok", "ok", TrendingThrows, CoinsThrows, 0, doc)) :
        c \in OptionOf({"all", "features", "pricing", "subscription", "careers"}),
        doc \in {None, Some(CompanyDoc), Some(CompanyDocNoPricing)}}

\* The trending handlers over sources that list three rows, every quote
\* succeeding, with the limit absent, below and at the length of the list.
INFY == <<"I", "N", "F", "Y">>
bch == <<"b", "c", "h">>

HandlerLongListCalls ==
    {BatchCall(n, Args(None, u, l, None, None),
               Env(ups, "ok", "ok", TrendingRows(Some(<<TCS, AAPL_O, INFY>>)),
                   CoinsRows(Some(<<btc, eth, bch>>)), 0, None)) :
        n \in {"get_top_stocks", "get_top_cryptos"}, u \in UnderPrices,
        l \in {None, Some(1), Some(3)},
        ups \in SeqsOfLen({UpItem("ok", "ok", 1, TRUE, TRUE, TRUE),
                           UpItem("ok", "ok", 3, TRUE, TRUE, TRUE)}, 3)}

InitHandlers ==
    /\ nodeEnv = "production"
    /\ chat = [r \in Reqs |-> IdleChat]
    /\ chatLog = <<>>
    /\ nextId = 1
    /\ clock = 1
    /\ fb = [f \in Fbs |-> IdleFb]
    /\ bCall \in {Some(c) : c \in HandlerTopStocksCalls \cup HandlerTopCryptosCalls
                                  \cup HandlerCryptoCalls \cup HandlerCompanyCalls
                                  \cup HandlerLongListCalls}
    /\ bResult = None
    /\ ui = UiIdle

CallGetTopStocks ==
    /\ bResult = None
    /\ Val(bCall).name = "get_top_stocks"
    /\ bResult' = Some(callHandler(Val(bCall).name, Val(bCall).args, Val(bCall).env))
    /\ UNCHANGED <<nodeEnv, chat, chatLog, nextId, clock, fb, bCall, ui>>

CallGetTopCryptos ==
    /\ bResult = None
    /\ Val(bCall).name = "get_top_cryptos"
    /\ bResult' = Some(callHandler(Val(bCall).name, Val(bCall).args, Val(bCall).env))
    /\ UNCHANGED <<nodeEnv, chat, chatLog, nextId, clock, fb, bCall, ui>>

CallGetCompanyInfo ==
    /\ bResult = None
    /\ Val(bCall).name = "get_company_info"
    /\ bResult' = Some(callHandler(Val(bCall).name, Val(bCall).args, Val(bCall).env))
    /\ UNCHANGED <<nodeEnv, chat, chatLog, nextId, clock, fb, bCall, ui>>

NextHandlers ==
    \/ CallGetTopStocks
    \/ CallGetTopCryptos
    \/ CallGetCryptoPrice
    \/ CallGetCompanyInfo

SpecHandlers == InitHandlers /\ [][NextHandlers]_vars

\* The price handlers on one raw symbol each, over every string of the
\* alphabet up to MaxSymLen characters and the symbols named in the tool
\* descriptions; the quote and the lookups succeed.
SymbolAlphabet == {"T", "s", ".", "-"}

SymbolInputs ==
    SeqsUpTo(SymbolAlphabet, MaxSymLen) \cup {TCS, AAPL_O, BTC, ETH_INR}

SymbolCalls ==
    {BatchCall(n, Args(Some(<<sy>>), None, None, None, None),
               Env(<<UpItem("ok", "ok", 1, TRUE, TRUE, TRUE)>>, "ok", "ok",
                   TrendingThrows, CoinsThrows, 0, None)) :
        n \in {"get_stock_price", "get_crypto_price"}, sy \in SymbolInputs}

InitSymbols ==
    /\ nodeEnv = "production"
    /\ chat = [r \in Reqs |-> IdleChat]
    /\ chatLog = <<>>
    /\ nextId = 1
    /\ clock = 1
    /\ fb = [f \in Fbs |-> IdleFb]
    /\ bCall \in {Some(c) : c \in SymbolCalls}
    /\ bResult = None
    /\ ui = UiIdle

NextSymbols ==
    \/ CallGetStockPrice
    \/ CallGetCryptoPrice

SpecSymbols == InitSymbols /\ [][NextSymbols]_vars

\* ================================================================ claims

\* The batch call of SpecBatch and its outcome.
bSymbols == Val(Val(bCall).args.symbols)
bUps == Val(bCall).env.ups
bRate ==
    IF Val(bCall).name = "get_crypto_price"
    THEN conversionRate(OrElse(Val(bCall).args.currency, "USD"), Val(bCall).env.rate)
    ELSE 1
bItems == Val(bResult).value.items
bFailed == {i \in 1..Len(bUps) : QuoteFails(bUps[i])}

\* C1: get_stock_price and get_crypto_price, called without underPrice on N
\* symbols of which exactly one has a failing upstream quote call, return N
\* entries in the order of the input symbols; exactly the entry of the failing
\* symbol carries an error marker and the other N-1 carry quote data.
C1_OneFailureKeepsBatch ==
    (IsSome(bResult) /\ ~IsSome(Val(bCall).args.underPrice) /\ Cardinality(bFailed) = 1) =>
        /\ ~Val(bResult).thrown
        /\ Val(bResult).value.kind = "array"
        /\ Len(bItems) = Len(bSymbols)
        /\ \A i \in 1..Len(bSymbols) :
             /\ "symbol" \in DOMAIN bItems[i]
             /\ bItems[i].symbol \in {bSymbols[i], normalizeEquity(bSymbols[i]),
                                      normalizeCrypto(bSymbols[i])}
             /\ IsErrorEntry(bItems[i]) <=> i \in bFailed
             /\ i \notin bFailed =>
                  /\ IsQuoteEntry(bItems[i])
                  /\ bItems[i].prices = <<bUps[i].price * bRate>>
        /\ Cardinality({i \in 1..Len(bItems) : IsErrorEntry(bItems[i])}) = 1

\* C1 witness: a two-symbol crypto batch whose first quote failed has returned
\* an error entry followed by a quote entry.
C1_Witness ==
    /\ IsSome(bResult)
    /\ Val(bCall).name = "get_crypto_price"
    /\ ~IsSome(Val(bCall).args.underPrice)
    /\ Len(bSymbols) = 2
    /\ bFailed = {1}
    /\ ~Val(bResult).thrown
    /\ IsErrorEntry(bItems[1])
    /\ IsQuoteEntry(bItems[2])

\* The request r has ended in the branch of the given tools with a symbol list.
BatchToolDone(r) ==
    /\ chat[r].pc = "done"
    /\ chat[r].functionName \in {Some("get_stock_price"), Some("get_crypto_price")}
    /\ IsSome(chat[r].args)
    /\ IsSome(Val(chat[r].args).symbols)

\* C2: one failing symbol never aborts the batch: for every symbol list, every
\* pattern of per-symbol failures and every underPrice (absent or present),
\* get_stock_price and get_crypto_price return a result instead of throwing, so
\* the request goes on to narration and is not answered with the generic error
\* because of the handler.
C2_FailingSymbolNeverAborts ==
    \A r \in Reqs :
        BatchToolDone(r) =>
            /\ IsSome(chat[r].functionResponse)
            /\ chat[r].llmCalls = 2

\* C3: a request the model answers without a function call gets a response of
\* role and content only, after exactly one LLM call, no handler call and no
\* ChatLog write.
C3_DirectAnswer ==
    \A r \in Reqs :
        (chat[r].pc = "done" /\ IsSome(chat[r].messageId) /\ ~IsSome(chat[r].functionName)) =>
            /\ Val(chat[r].response).status = 200
            /\ DOMAIN Val(chat[r].response) \ {"status"} = {"role", "content"}
            /\ Val(chat[r].response).role = "assistant"
            /\ chat[r].llmCalls = 1
            /\ chat[r].handlerCalls = 0
            /\ chat[r].logWrites = 0
            /\ ~IsSome(chat[r].logItem)
            /\ Val(chat[r].messageId) \notin DOMAIN chatLog

\* C3 witness: a direct answer has been returned after an earlier request was
\* logged.
C3_Witness ==
    \E r \in Reqs :
        /\ chat[r].pc = "done"
        /\ IsSome(chat[r].messageId)
        /\ ~IsSome(chat[r].functionName)
        /\ Val(chat[r].response).status = 200
        /\ DOMAIN chatLog # {}

\* The request r has returned the response of the function-call branch.
Completed(r) ==
    /\ chat[r].pc = "done"
    /\ "rawData" \in DOMAIN Val(chat[r].response)

\* C4: a request whose tool call, handler and narration succeed attempts
\* exactly one ChatLog write, before its response exists; the record written
\* has like, dislike and report false and an empty reportMessage, and the
\* response's messageId is the record's key.
C4_OneLogWriteBeforeResponse ==
    \A r \in Reqs :
        /\ chat[r].logWrites <= 1
        /\ chat[r].pc \in {"Logging", "Logged"} =>
             (chat[r].logWrites = 1 /\ ~IsSome(chat[r].response))
        /\ (chat[r].pc = "Logged" /\ Val(chat[r].messageId) \in DOMAIN chatLog) =>
             chatLog[Val(chat[r].messageId)] = Val(chat[r].logItem)
        /\ Completed(r) =>
             /\ chat[r].logWrites = 1
             /\ Val(chat[r].logItem).actions =
                    [like |-> FALSE, dislike |-> FALSE, report |-> FALSE, reportMessage |-> ""]
             /\ Val(chat[r].response).messageId = Val(chat[r].logItem).messageId
             /\ Val(chat[r].response).messageId = Val(chat[r].messageId)

\* C4 witness: a stock-price request has completed and its record is in the
\* table under the returned messageId.
C4_Witness ==
    \E r \in Reqs :
        /\ Completed(r)
        /\ chat[r].functionName = Some("get_stock_price")
        /\ Val(chat[r].response).messageId \in DOMAIN chatLog
        /\ chatLog[Val(chat[r].response).messageId] = Val(chat[r].logItem)

\* C5: in every reachable state, after any sequence and interleaving of like,
\* dislike and report requests on a logged record, like and dislike are never
\* both true.
C5_LikeDislikeExclusive ==
    \A id \in DOMAIN chatLog :
        ~(chatLog[id].actions.like /\ chatLog[id].actions.dislike)

\* C5 witness: a record is disliked while a like and a dislike for it are both
\* on their way to the store.
C5_Witness ==
    \E id \in DOMAIN chatLog :
        /\ chatLog[id].actions.dislike
        /\ \E f, g \in Fbs :
             /\ fb[f].pc = "sent" /\ fb[f].command = Some(UpdateItemCommand(id, "like", None))
             /\ fb[g].pc = "sent" /\ fb[g].command = Some(UpdateItemCommand(id, "dislike", None))

\* The step in which the store applies the update of feedback request f.
Applied(f) ==
    /\ fb[f].pc = "sent"
    /\ fb'[f].pc = "done"
    /\ Val(fb'[f].response).status = 200

\* C6: the last of a like and a dislike on the same record wins: the step that
\* applies a dislike to a liked record leaves like = false and dislike = true,
\* and the step that applies a like to a disliked record leaves like = true and
\* dislike = false.
C6_LastOfLikeDislikeWins ==
    [][\A f \in Fbs :
          Applied(f) =>
              LET id == Val(fb[f].messageId)
              IN  /\ (fb[f].action = Some("dislike") /\ chatLog[id].actions.like) =>
                        (~chatLog'[id].actions.like /\ chatLog'[id].actions.dislike)
                  /\ (fb[f].action = Some("like") /\ chatLog[id].actions.dislike) =>
                        (chatLog'[id].actions.like /\ ~chatLog'[id].actions.dislike)]_vars

\* C6 witness: a like and then a dislike of the same record have both been
\* confirmed, and the record is disliked and not liked.
C6_Witness ==
    \E id \in DOMAIN chatLog :
        /\ ~chatLog[id].actions.like
        /\ chatLog[id].actions.dislike
        /\ \E f, g \in Fbs :
             /\ fb[f].pc = "done" /\ fb[f].action = Some("like")
             /\ fb[f].response = Some(FeedbackUpdated(id))
             /\ fb[g].pc = "done" /\ fb[g].action = Some("dislike")
             /\ fb[g].response = Some(FeedbackUpdated(id))

\* C7: a feedback request whose messageId has no ChatLog record is answered
\* with a NotFound outcome (a not-found status, not the failure response of a
\* store error) and writes nothing: the table holds no record for that
\* messageId afterwards.
C7_UnknownIdNotFound ==
    \A f \in Fbs :
        (/\ fb[f].pc = "done"
         /\ IsSome(fb[f].command)
         /\ Val(fb[f].messageId) \notin DOMAIN chatLog
         /\ Val(fb[f].response) # FeedbackFailed("store unreachable")) =>
            /\ Val(fb[f].response).status = 404
            /\ Val(fb[f].messageId) \notin DOMAIN chatLog

\* C8: a feedback request whose action is not like, dislike or report is
\* answered with status 400 and 'Invalid action' and sends no update to the
\* store; a request with a valid action whose update succeeds is answered with
\* the confirmation message and the messageId it was sent.
C8_ActionValidated ==
    \A f \in Fbs :
        /\ fb[f].pc = "sent" => Val(fb[f].action) \in {"like", "dislike", "report"}
        /\ (fb[f].pc = "done" /\ Val(fb[f].action) \notin {"like", "dislike", "report"}) =>
             /\ Val(fb[f].response) = [status |-> 400, error |-> "Invalid action"]
             /\ ~IsSome(fb[f].command)
        /\ (fb[f].pc = "done" /\ Val(fb[f].response).status = 200) =>
             /\ Val(fb[f].action) \in {"like", "dislike", "report"}
             /\ Val(fb[f].response).message = "Feedback updated successfully"
             /\ Val(fb[f].response).messageId = Val(fb[f].messageId)

\* C8 witness: one request with an unknown action has been rejected while a
\* report on a logged record has been confirmed.
C8_Witness ==
    \E f, g \in Fbs :
        /\ fb[f].pc = "done" /\ fb[f].action = Some("love")
        /\ Val(fb[f].response).status = 400
        /\ fb[g].pc = "done" /\ fb[g].action = Some("report")
        /\ Val(fb[g].response).status = 200
        /\ chatLog[Val(fb[g].messageId)].actions.report

\* The request r carries a tool call with parsed arguments for a tool the
\* switch has no case for.
UnknownTool(r) ==
    /\ IsSome(chat[r].functionName)
    /\ Val(chat[r].functionName) \notin
          {"get_stock_price", "get_top_stocks", "get_crypto_price", "get_top_cryptos",
           "get_company_info", "get_market_update", "get_crypto_market_update"}
    /\ IsSome(chat[r].args)

\* C9: when the model names a tool the switch has no case for, no handler is
\* invoked, the tool result is {error: 'Function not supported'}, the narration
\* call is made with the market-data instruction, and once narration has
\* returned the request ends with a success response whose rawData is that
\* result.
C9_UnknownToolNarrated ==
    \A r \in Reqs :
        UnknownTool(r) =>
            /\ chat[r].handlerCalls = 0
            /\ chat[r].pc \in {"AwaitingNarration", "Logging", "Logged", "done"}
            /\ chat[r].functionResponse = Some([kind |-> "object", error |-> "Function not supported"])
            /\ chat[r].instruction = Some("market")
            /\ chat[r].llmCalls = 2
            /\ (chat[r].pc = "done" /\ IsSome(chat[r].logItem)) =>
                 /\ Val(chat[r].response).status = 200
                 /\ Val(chat[r].response).rawData = [kind |-> "object", error |-> "Function not supported"]
                 /\ Val(chat[r].response).functionName = Val(chat[r].functionName)

\* C9 witness: a request for an unknown tool has returned its success
\* response.
C9_Witness ==
    \E r \in Reqs :
        /\ UnknownTool(r)
        /\ chat[r].pc = "done"
        /\ Val(chat[r].response).status = 200
        /\ "rawData" \in DOMAIN Val(chat[r].response)

\* C10: when the tool call's argument text is not valid JSON, the request
\* degrades to a narrated 'not supported' response and does not end in the
\* generic error response.  (A request that ends with a function name and
\* without parsed arguments is one whose argument text failed to parse.)
C10_MalformedArgumentsDegrade ==
    \A r \in Reqs :
        (chat[r].pc = "done" /\ IsSome(chat[r].functionName) /\ ~IsSome(chat[r].args)) =>
            /\ Val(chat[r].response).status = 200
            /\ chat[r].llmCalls = 2

\* The request r has been answered by the catch block of POST.
Failed(r) ==
    /\ chat[r].pc = "done"
    /\ "error" \in DOMAIN Val(chat[r].response)

\* The request r has been answered by the branch without a function call.
Direct(r) ==
    /\ chat[r].pc = "done"
    /\ IsSome(chat[r].messageId)
    /\ ~IsSome(chat[r].functionName)

\* C11: a request in which the first completion, the handler (get_company_info
\* without a company document included) or the narration completion throws is
\* answered with the generic 'financial data unavailable' error and status 500:
\* the response carries no narration text, no ChatLog write has been made for
\* it, and no completion or handler has been called a second time.  Every
\* finished request that is neither a direct answer nor a completed tool turn
\* is such an error, and a completed tool turn has its handler result and both
\* completions behind it.
C11_ThrowGivesGenericError ==
    \A r \in Reqs :
        /\ chat[r].pc = "done" => (Direct(r) \/ Completed(r) \/ Failed(r))
        /\ Completed(r) =>
             /\ IsSome(chat[r].functionResponse)
             /\ chat[r].llmCalls = 2
             /\ chat[r].logWrites = 1
        /\ Failed(r) =>
             /\ Val(chat[r].response).status = 500
             /\ Val(chat[r].response).error =
                    "Financial data currently unavailable. Please try again later."
             /\ DOMAIN Val(chat[r].response) = {"status", "error", "details"}
             /\ chat[r].logWrites = 0
             /\ ~IsSome(chat[r].logItem)
             /\ IsSome(chat[r].messageId) => Val(chat[r].messageId) \notin DOMAIN chatLog
             /\ chat[r].llmCalls <= 2
             /\ chat[r].handlerCalls <= 1
             /\ chat[r].llmCalls = 2 => IsSome(chat[r].functionResponse)

\* C11 witness: get_company_info has thrown for want of a company document
\* (the handler was called, it left no result, no narration was requested) and
\* the request has the error response, after an earlier request was logged.
C11_Witness ==
    \E r \in Reqs :
        /\ Failed(r)
        /\ chat[r].functionName = Some("get_company_info")
        /\ IsSome(chat[r].args)
        /\ chat[r].handlerCalls = 1
        /\ ~IsSome(chat[r].functionResponse)
        /\ chat[r].llmCalls = 1
        /\ Val(chat[r].response).status = 500
        /\ DOMAIN chatLog # {}

\* The order of the steps of one chat request.
OrderedSteps ==
    {<<"idle", "AwaitingModelDecision">>, <<"idle", "done">>,
     <<"AwaitingModelDecision", "done">>, <<"AwaitingModelDecision", "ToolExecuting">>,
     <<"AwaitingModelDecision", "AwaitingNarration">>,
     <<"ToolExecuting", "AwaitingNarration">>, <<"ToolExecuting", "done">>,
     <<"AwaitingNarration", "Logging">>, <<"AwaitingNarration", "done">>,
     <<"Logging", "Logged">>, <<"Logged", "done">>, <<"done", "idle">>}

InOrder(r) ==
    /\ chat[r].handlerCalls <= 1
    /\ chat[r].llmCalls <= 2
    /\ chat[r].logWrites <= 1
    /\ chat[r].pc = "ToolExecuting" => (chat[r].handlerCalls = 1 /\ chat[r].llmCalls = 1)
    /\ chat[r].llmCalls = 2 => IsSome(chat[r].functionResponse)
    /\ chat[r].logWrites = 1 =>
         (chat[r].llmCalls = 2 /\ chat[r].pc \in {"Logging", "Logged", "done"})
    /\ IsSome(chat[r].response) <=> chat[r].pc = "done"
    /\ chat[r].pc = "done" => (Direct(r) \/ Completed(r) \/ Failed(r))
    /\ Direct(r) => (chat[r].llmCalls = 1 /\ chat[r].handlerCalls = 0)

StepInOrder(r) ==
    /\ chat'[r].pc # chat[r].pc => <<chat[r].pc, chat'[r].pc>> \in OrderedSteps
    /\ IsSome(chat[r].response) => chat'[r] \in {chat[r], IdleChat}
    /\ chat'[r].pc # "idle" =>
         /\ chat'[r].handlerCalls >= chat[r].handlerCalls
         /\ chat'[r].llmCalls >= chat[r].llmCalls
         /\ chat'[r].logWrites >= chat[r].logWrites

\* C12: every chat request goes through AwaitingModelDecision, then either
\* the direct answer or the tool turn (ToolExecuting, AwaitingNarration, the
\* log write, Complete), in that order: at most one handler call per request,
\* the narration completion only once the tool result exists, the log write
\* only once narration has returned, and exactly one response (direct answer,
\* complete or error), which is the request's last step.
C12_RequestOrder ==
    /\ [](\A r \in Reqs : InOrder(r))
    /\ [][\A r \in Reqs : StepInOrder(r)]_vars

\* C12 witness: a get_top_cryptos turn has gone through its handler, narration
\* and log write and has its complete response.
C12_Witness ==
    \E r \in Reqs :
        /\ Completed(r)
        /\ chat[r].functionName = Some("get_top_cryptos")
        /\ chat[r].handlerCalls = 1
        /\ chat[r].llmCalls = 2
        /\ chat[r].logWrites = 1

\* The log write of request r failed: the write was attempted and the table
\* holds no record under the request's messageId.
PutFailed(r) ==
    /\ chat[r].logWrites = 1
    /\ chat[r].pc \in {"Logged", "done"}
    /\ Val(chat[r].messageId) \notin DOMAIN chatLog

\* C13: when the ChatLog write of a tool turn fails, the request is still
\* answered with the success response (narration, rawData, functionName,
\* messageId) and not with an error.
C13_StoreFailureSwallowed ==
    \A r \in Reqs :
        (PutFailed(r) /\ chat[r].pc = "done") =>
            /\ Val(chat[r].response).status = 200
            /\ Val(chat[r].response) =
                  [status |-> 200, role |-> "assistant", content |-> "narration",
                   rawData |-> Val(chat[r].functionResponse),
                   functionName |-> Val(chat[r].functionName),
                   messageId |-> Val(chat[r].messageId)]

\* C13 witness: a stock-price turn whose log write failed has its success
\* response.
C13_Witness ==
    \E r \in Reqs :
        /\ PutFailed(r)
        /\ chat[r].pc = "done"
        /\ chat[r].functionName = Some("get_stock_price")
        /\ Val(chat[r].response).status = 200

\* The request r holds the array a handler with an underPrice parameter
\* returned for a call that gave underPrice (and, if it lists symbols, at
\* least one).
FilteredResult(r) ==
    /\ chat[r].functionName \in
          {Some("get_stock_price"), Some("get_top_stocks"),
           Some("get_crypto_price"), Some("get_top_cryptos")}
    /\ IsSome(chat[r].args)
    /\ IsSome(Val(chat[r].args).underPrice)
    /\ IsSome(Val(chat[r].args).symbols) => Val(Val(chat[r].args).symbols) # <<>>
    /\ IsSome(chat[r].functionResponse)
    /\ Val(chat[r].functionResponse).kind = "array"

\* C14: get_stock_price, get_top_stocks, get_crypto_price and get_top_cryptos,
\* called with an underPrice below which no entry's price lies, return exactly
\* one placeholder entry and never an empty sequence.
C14_PlaceholderWhenNothingPasses ==
    \A r \in Reqs :
        FilteredResult(r) =>
            LET items == Val(chat[r].functionResponse).items
                underPrice == Val(Val(chat[r].args).underPrice)
            IN  /\ items # <<>>
                /\ (\A i \in 1..Len(items) :
                       ~("prices" \in DOMAIN items[i] /\ items[i].prices[1] < underPrice)) =>
                     (Len(items) = 1 /\ "message" \in DOMAIN items[1])

\* The trending call of SpecHandlers: the rows its source listed, and how many
\* of them the handler fetches.
tRows ==
    IF Val(bCall).name = "get_top_stocks"
    THEN OrElse(Val(bCall).env.trending.rows, <<>>)
    ELSE OrElse(Val(bCall).env.feed.rows, <<>>)
tLimit == OrElse(Val(bCall).args.limit, 2)
tFetched == IF tLimit < Len(tRows) THEN tLimit ELSE Len(tRows)

\* C15: in get_top_stocks and get_top_cryptos (called without underPrice), a
\* symbol whose per-symbol fetch fails has an error-tagged entry in the result,
\* beside the entries of the symbols that succeeded: the result has one entry
\* per fetched symbol, an error entry exactly for the failed ones.
C15_TrendingFailureTagged ==
    (/\ IsSome(bResult)
     /\ Val(bCall).name \in {"get_top_stocks", "get_top_cryptos"}
     /\ ~IsSome(Val(bCall).args.underPrice)
     /\ Val(bResult).value.kind = "array") =>
        /\ Len(bItems) = tFetched
        /\ \A i \in 1..tFetched : ("error" \in DOMAIN bItems[i]) <=> QuoteFails(bUps[i])

\* C16: get_top_stocks fails as a whole, with the source-unavailable error
\* result and without any per-symbol entry, when the landing-page request
\* yields no session cookie or the trending endpoint yields no rows.
C16_TwoStepProtocol ==
    (/\ IsSome(bResult)
     /\ Val(bCall).name = "get_top_stocks"
     /\ \/ Val(bCall).env.cookie # "ok"
        \/ Val(bCall).env.trending.out # "ok"
        \/ tRows = <<>>) =>
        Val(bResult) =
            [thrown |-> FALSE,
             value |-> [kind |-> "object",
                        error |-> "Unable to fetch trending Indian stocks from NSE."]]

\* The call of SpecHandlers asks for INR and its rate lookup fails.
RateLookupFailed ==
    /\ Val(bCall).name \in {"get_crypto_price", "get_top_cryptos"}
    /\ Val(bCall).args.currency = Some("INR")
    /\ Val(bCall).env.rate # "ok"

\* C17: get_crypto_price and get_top_cryptos called with currency INR, when
\* the USD-to-INR lookup throws or yields no price, do not abort but use rate
\* 1: the outcome is the outcome of the same call with currency USD, every
\* price included.
C17_RateFallbackIsIdentity ==
    (IsSome(bResult) /\ RateLookupFailed) =>
        /\ Val(bResult) =
              callHandler(Val(bCall).name,
                          [Val(bCall).args EXCEPT !.currency = Some("USD")],
                          Val(bCall).env)
        /\ (~Val(bResult).thrown /\ Val(bResult).value.kind = "array") =>
              \A i \in 1..Len(bItems) :
                  "prices" \in DOMAIN bItems[i] => bItems[i].prices[1] \in Prices

\* C17 witness: get_top_cryptos in INR whose rate lookup threw has returned
\* two entries at the upstream's prices.
C17_Witness ==
    /\ IsSome(bResult)
    /\ RateLookupFailed
    /\ Val(bCall).name = "get_top_cryptos"
    /\ Val(bCall).env.rate = "throw"
    /\ ~Val(bResult).thrown
    /\ Val(bResult).value.kind = "array"
    /\ Len(bItems) = 2
    /\ bItems[1].prices = <<bUps[1].price>>
    /\ bItems[2].prices = <<bUps[2].price>>
    /\ bUps[1].price # bUps[2].price

\* The batch call of SpecBatch reduced to its i-th symbol.
bAlone(i) ==
    callHandler(Val(bCall).name,
                [Val(bCall).args EXCEPT !.symbols = Some(<<bSymbols[i]>>)],
                [Val(bCall).env EXCEPT !.ups = <<bUps[i]>>])

\* C18: in get_stock_price and get_crypto_price (called without underPrice),
\* a symbol whose quote succeeds keeps a success entry when its history,
\* detailed-info or news lookup fails, with history = [], detailedInfo = null
\* or news = [] respectively; and every entry of the batch is the entry the
\* symbol gets when it is asked for alone.
C18_EnrichmentFailureIsEmpty ==
    (IsSome(bResult) /\ ~IsSome(Val(bCall).args.underPrice)) =>
        /\ ~Val(bResult).thrown
        /\ Len(bItems) = Len(bSymbols)
        /\ \A i \in 1..Len(bSymbols) :
             /\ ~QuoteFails(bUps[i]) =>
                  /\ "error" \notin DOMAIN bItems[i]
                  /\ bItems[i].prices = <<bUps[i].price * bRate>>
                  /\ bItems[i].history = <<>> <=> ~bUps[i].hist
                  /\ bItems[i].detailedInfo = <<>> <=> ~bUps[i].info
                  /\ bItems[i].news = <<>> <=> ~bUps[i].news
             /\ bItems[i] = bAlone(i).value.items[1]

\* C18 witness: a two-symbol stock batch whose first symbol lost its history
\* lookup and whose second lost its news lookup has returned two success
\* entries.
C18_Witness ==
    /\ IsSome(bResult)
    /\ Val(bCall).name = "get_stock_price"
    /\ ~IsSome(Val(bCall).args.underPrice)
    /\ Len(bSymbols) = 2
    /\ ~bUps[1].hist /\ ~bUps[2].news
    /\ ~Val(bResult).thrown
    /\ bItems[1].history = <<>> /\ bItems[1].news # <<>>
    /\ bItems[2].news = <<>> /\ bItems[2].history # <<>>
    /\ "error" \notin DOMAIN bItems[1] /\ "error" \notin DOMAIN bItems[2]

\* The company call of SpecHandlers asked for another category.
bCompany(category) ==
    callHandler("get_company_info",
                [Val(bCall).args EXCEPT !.category = category], Val(bCall).env)

\* C19: for every stored company document, get_company_info with category
\* 'subscription' returns what it returns with category 'pricing', and without
\* a category it returns what it returns with 'all': the whole document.
C19_SubscriptionIsPricing ==
    (IsSome(bResult) /\ Val(bCall).name = "get_company_info") =>
        /\ Val(bCall).args.category = Some("subscription") =>
              Val(bResult) = bCompany(Some("pricing"))
        /\ ~IsSome(Val(bCall).args.category) =>
              /\ Val(bResult) = bCompany(Some("all"))
              /\ IsSome(Val(bCall).env.doc) =>
                    Val(bResult) = [thrown |-> FALSE, value |-> Val(Val(bCall).env.doc)]

\* C19 witness: the subscription section of the full document has been
\* returned, and it is the pricing text.
C19_Witness ==
    /\ IsSome(bResult)
    /\ Val(bCall).name = "get_company_info"
    /\ Val(bCall).args.category = Some("subscription")
    /\ Val(bCall).env.doc = Some(CompanyDoc)
    /\ ~Val(bResult).thrown
    /\ Val(bResult).value.data = Some("pricing text")

\* The one raw symbol of a call of SpecSymbols and the query symbol the
\* handler made of it.
sRaw == bSymbols[1]
sQuery == bItems[1].symbol
sAgain ==
    callHandler(Val(bCall).name, [Val(bCall).args EXCEPT !.symbols = Some(<<sQuery>>)],
                Val(bCall).env).value.items[1].symbol
HasChar(s, c) == \E i \in 1..Len(s) : s[i] = c

C21_NoDetailInProduction ==
    nodeEnv # "development" =>
        /\ \A r \in Reqs :
             Failed(r) => Val(chat[r].response).details = <<>>
        /\ \A f \in Fbs :
             (fb[f].pc = "done" /\ "error" \in DOMAIN Val(fb[f].response)) =>
                 \/ "details" \notin DOMAIN Val(fb[f].response)
                 \/ Val(fb[f].response).details = <<>>

\* C22: a feedback update changes only the feedback fields its action names:
\* the step that applies a like or a dislike leaves report and reportMessage as
\* they were, the step that applies a report leaves like and dislike as they
\* were, and no such step changes the record's messageId, timestamp, userQuery
\* or chatbotResponse.
C22_FeedbackFrame ==
    [][\A f \in Fbs :
          Applied(f) =>
              LET id == Val(fb[f].messageId)
                  old == chatLog[id]
                  new == chatLog'[id]
              IN  /\ new.messageId = old.messageId
                  /\ new.timestamp = old.timestamp
                  /\ new.userQuery = old.userQuery
                  /\ new.chatbotResponse = old.chatbotResponse
                  /\ DOMAIN new = DOMAIN old
                  /\ DOMAIN new.actions = DOMAIN old.actions
                  /\ fb[f].action \in {Some("like"), Some("dislike")} =>
                       /\ new.actions.report = old.actions.report
                       /\ new.actions.reportMessage = old.actions.reportMessage
                  /\ fb[f].action = Some("report") =>
                       /\ new.actions.like = old.actions.like
                       /\ new.actions.dislike = old.actions.dislike]_vars

\* C22 witness: a record is liked and reported with its message, both requests
\* confirmed, and the rest of the record is as it was written.
C22_Witness ==
    \E id \in DOMAIN chatLog :
        /\ chatLog[id].actions =
              [like |-> TRUE, dislike |-> FALSE, report |-> TRUE, reportMessage |-> "spam"]
        /\ chatLog[id].userQuery = "q1"
        /\ \E f, g \in Fbs :
             /\ fb[f].pc = "done" /\ fb[f].action = Some("like")
             /\ fb[f].response = Some(FeedbackUpdated(id))
             /\ fb[g].pc = "done" /\ fb[g].action = Some("report")
             /\ fb[g].response = Some(FeedbackUpdated(id))

\* C30: feedback is monotone where nothing clears it: in every step a record
\* stays in the table, a report flag that is true stays true, and a record
\* that has a like or a dislike has exactly one of the two afterwards.
C30_FeedbackMonotone ==
    [][\A id \in DOMAIN chatLog :
          /\ id \in DOMAIN chatLog'
          /\ chatLog[id].actions.report => chatLog'[id].actions.report
          /\ (chatLog[id].actions.like \/ chatLog[id].actions.dislike) =>
                (chatLog'[id].actions.like # chatLog'[id].actions.dislike)]_vars

\* C30 witness: a reported record that was liked has since been disliked: the
\* report stands and exactly the dislike is set.
C30_Witness ==
    \E id \in DOMAIN chatLog :
        /\ chatLog[id].actions.report
        /\ chatLog[id].actions.dislike
        /\ ~chatLog[id].actions.like
        /\ \E f, g \in Fbs :
             /\ fb[f].pc = "done" /\ fb[f].action = Some("like")
             /\ fb[f].response = Some(FeedbackUpdated(id))
             /\ fb[g].pc = "done" /\ fb[g].action = Some("dislike")
             /\ fb[g].response = Some(FeedbackUpdated(id))

\* C23: get_top_stocks and get_top_cryptos (and with them get_market_update
\* and get_crypto_market_update, which pass their limit on), called through
\* the dispatch without a limit, fetch up to 10 entries, as the tool
\* descriptors say; with limit = k they return at most k.  When every quote
\* succeeds and nothing is filtered, the result has as many entries as the
\* source lists, up to that number.
C23_DefaultLimitIsTen ==
    (/\ IsSome(bResult)
     /\ Val(bCall).name \in {"get_top_stocks", "get_top_cryptos"}
     /\ ~IsSome(Val(bCall).args.underPrice)
     /\ Val(bResult).value.kind = "array"
     /\ \A i \in 1..Len(tRows) : ~QuoteFails(bUps[i])) =>
        LET most == IF IsSome(Val(bCall).args.limit) THEN Val(Val(bCall).args.limit) ELSE 10
        IN  Len(bItems) = IF most < Len(tRows) THEN most ELSE Len(tRows)

\* C25: for any interleaving of concurrent chat requests and feedback
\* requests, the requests in flight hold distinct messageIds and every record
\* is stored under its own messageId, so two tool turns create two records;
\* and in every step a record stays in the table and changes only if the step
\* applies a feedback request for that record's messageId: no put overwrites
\* another request's record and no feedback request touches another record.
C25_NoCrossRecordInterference ==
    /\ [](\A r, q \in Reqs :
             (r # q /\ IsSome(chat[r].messageId) /\ IsSome(chat[q].messageId)) =>
                 chat[r].messageId # chat[q].messageId)
    /\ [](\A id \in DOMAIN chatLog : chatLog[id].messageId = id)
    /\ [][\A id \in DOMAIN chatLog :
             /\ id \in DOMAIN chatLog'
             /\ chatLog'[id] # chatLog[id] =>
                  \E f \in Fbs : Applied(f) /\ fb[f].messageId = Some(id)]_vars

\* C25 witness: two chat requests are complete at the same time, their two
\* records are in the table, and the feedback given so far (a like for one, a
\* report for the other) is on the record it named.
C25_Witness ==
    \E r, q \in Reqs :
        /\ r # q
        /\ Completed(r) /\ Completed(q)
        /\ Val(chat[r].messageId) \in DOMAIN chatLog
        /\ Val(chat[q].messageId) \in DOMAIN chatLog
        /\ chatLog[Val(chat[r].messageId)].actions =
              [like |-> TRUE, dislike |-> FALSE, report |-> FALSE, reportMessage |-> ""]
        /\ chatLog[Val(chat[q].messageId)].actions =
              [like |-> FALSE, dislike |-> FALSE, report |-> TRUE, reportMessage |-> "spam"]

MaxCalls == 3

\* What the user submits: whitespace only, or a question.
UiInputs == {"  ", "top 2 stocks"}

\* !messageContent.trim(): the content is empty or only whitespace.
isBlank(messageContent) == messageContent \in {"", " ", "  "}

\* The message the catch block appends; its role is the warning-sign emoji
\* (U+26A0 U+FE0F), written here by its code points.
UiErrorNotice ==
    Message("U+26A0 U+FE0F",
            "I encountered an error. Please try again or ask about financial topics.")

\* axios rejects without a response when the request does not reach the server.
NetworkError == [status |-> 0]

\* Tool calls whose results the server hands back as rawData: a two-symbol
\* stock batch in which each quote succeeds, succeeds without history or
\* fails; a filtered crypto lookup that matches nothing; the company
\* document; a tool the switch does not know.
UiUpItems ==
    {UpItem("ok", "ok", 1, TRUE, TRUE, TRUE), UpItem("ok", "ok", 1, FALSE, TRUE, TRUE),
     UpItem("throw", "ok", 1, TRUE, TRUE, TRUE)}

UiToolCalls ==
    {BatchCall("get_stock_price", Args(Some(<<TCS, AAPL_O>>), None, None, None, None),
               Env(ups, "ok", "ok", TrendingThrows, CoinsThrows, 0, None)) :
        ups \in SeqsOfLen(UiUpItems, 2)}
    \cup {BatchCall("get_crypto_price", Args(Some(<<BTC>>), Some(2), None, None, None),
                    Env(<<UpItem("ok", "ok", 3, TRUE, TRUE, TRUE)>>, "ok", "ok",
                        TrendingThrows, CoinsThrows, 0, None)),
          BatchCall("get_company_info", Args(None, None, None, None, None),
                    Env(<<>>, "ok", "ok", TrendingThrows, CoinsThrows, 0, Some(CompanyDoc))),
          BatchCall("get_weather", EmptyArgs,
                    Env(<<>>, "ok", "ok", TrendingThrows, CoinsThrows, 0, None))}

\* What POST /api/chat can answer: the narrated result of a tool call, the
\* model's direct answer, the error response; or no answer at all.
UiResponses ==
    {CompleteResponse("narration", callHandler(c.name, c.args, c.env).value, c.name, 1) :
        c \in {d \in UiToolCalls : ~callHandler(d.name, d.args, d.env).thrown}}
    \cup {DirectResponse(Some("answer")), ErrorResponse("failure"), NetworkError}

\* The chart block of sendMessage raises a TypeError: it runs for a
\* non-empty rawData array only (an object has no length); with history on
\* the first entry it reads asset.history.map of every entry, with a single
\* realtime price on the first entry it reads item.prices[0] of every entry.
\* An entry carries dates exactly when it carries prices.
chartThrows(data) ==
    IF "rawData" \notin DOMAIN data THEN FALSE
    ELSE IF data.rawData.kind # "array" \/ data.rawData.items = <<>> THEN FALSE
    ELSE LET rawData == data.rawData.items
             first == rawData[1]
         IN  IF "history" \in DOMAIN first /\ Len(first.history) > 0
             THEN \E i \in 1..Len(rawData) : "history" \notin DOMAIN rawData[i]
             ELSE IF "prices" \in DOMAIN first
             THEN Len(first.prices) <= 1
                  /\ \E i \in 1..Len(rawData) : "prices" \notin DOMAIN rawData[i]
             ELSE FALSE

\* The response body as sendMessage appends it (chartData and chartTitle,
\* used by the chart only, are left out).
assistantMessage(data) == [f \in DOMAIN data \ {"status"} |-> data[f]]

\* What the settled request appends: axios rejects without a response and on
\* a status outside 2xx, the chart block may throw; the catch block appends
\* the error notice, otherwise the response body is appended.
replyTo(response) ==
    IF response.status # 200 \/ chartThrows(response)
    THEN UiErrorNotice
    ELSE assistantMessage(response)

\* A call of sendMessage made from the last render: `messages` and `loading`
\* are the values that render was given.  The guard returns on blank content
\* or while that render shows loading; otherwise the two state updates are
\* queued and the request is posted with [...messages, userMessage].
UiSendMessage(messageContent) ==
    /\ ui.calls < MaxCalls
    /\ IF isBlank(messageContent) \/ ui.shownLoading
       THEN ui' = [ui EXCEPT !.calls = @ + 1]
       ELSE LET userMessage == Message("user", messageContent)
            IN  ui' = [ui EXCEPT !.calls = @ + 1,
                                 !.loading = TRUE,
                                 !.messages = Append(@, userMessage),
                                 !.sends = Append(@, [pc |-> "posted",
                                                      body |-> Append(ui.shownMessages, userMessage),
                                                      reply |-> None])]
    /\ UNCHANGED <<nodeEnv, chat, chatLog, nextId, clock, fb, bCall, bResult>>

\* React renders the component again with the current state.
UiRender ==
    /\ <<ui.shownMessages, ui.shownLoading>> # <<ui.messages, ui.loading>>
    /\ ui' = [ui EXCEPT !.shownMessages = ui.messages, !.shownLoading = ui.loading]
    /\ UNCHANGED <<nodeEnv, chat, chatLog, nextId, clock, fb, bCall, bResult>>

\* The posted request i settles: try, catch and finally of sendMessage.
UiSettle(i, responses) ==
    /\ i \in 1..Len(ui.sends)
    /\ ui.sends[i].pc = "posted"
    /\ \E response \in responses :
        ui' = [ui EXCEPT !.messages = Append(@, replyTo(response)),
                         !.loading = FALSE,
                         !.sends[i] = [pc |-> "settled", body |-> ui.sends[i].body,
                                       reply |-> Some([response |-> response,
                                                       message |-> replyTo(response)])]]
    /\ UNCHANGED <<nodeEnv, chat, chatLog, nextId, clock, fb, bCall, bResult>>

NextUi ==
    \/ \E messageContent \in UiInputs : UiSendMessage(messageContent)
    \/ UiRender
    \/ \E i \in 1..MaxCalls : UiSettle(i, UiResponses)

SpecUi == InitLog /\ [][NextUi]_vars

\* Every posted request settles and React renders every state change.
SpecUiFair ==
    /\ SpecUi
    /\ WF_vars(UiRender)
    /\ \A i \in 1..MaxCalls : WF_vars(UiSettle(i, UiResponses))

\* ---------------------------------------------- claims on the Chat component

UiRoles == {"user", "assistant", "system"}

RolesOk(msgs) == \A k \in 1..Len(msgs) : msgs[k].role \in UiRoles

IsPrefix(s, t) == Len(s) <= Len(t) /\ SubSeq(t, 1, Len(s)) = s

Posted(i) == i <= Len(ui.sends) /\ ui.sends[i].pc = "posted"

Settled(i) == i <= Len(ui.sends) /\ ui.sends[i].pc = "settled"

\* C24: after any sequence of successful and failed sends every message of
\* the conversation, and so every message of a request body built from it,
\* has a role among user, assistant and system; and the conversation only
\* grows by appending, its existing entries never changed or removed.
C24_ConversationRoles ==
    [][/\ RolesOk(ui'.messages)
       /\ \A i \in 1..Len(ui'.sends) : RolesOk(ui'.sends[i].body)
       /\ IsPrefix(ui.messages, ui'.messages)]_vars

\* rawData of the kinds a degraded but successful tool call returns.
IsMixedBatch(rawData) ==
    /\ rawData.kind = "array"
    /\ \E k \in 1..Len(rawData.items) : IsErrorEntry(rawData.items[k])
    /\ \E k \in 1..Len(rawData.items) : IsQuoteEntry(rawData.items[k])

IsDegraded(rawData) ==
    \/ IsMixedBatch(rawData)
    \/ rawData.kind = "array" /\ rawData.items = <<PlaceholderEntry>>
    \/ rawData.kind = "object"

\* C27: for a successful response whose rawData is a batch with both success
\* entries and error entries in any positions, a single placeholder entry,
\* or an object that is not a list, the component appends the assistant's
\* narration and not the error notice.
C27_DegradedResultNarrated ==
    \A i \in 1..Len(ui.sends) :
        (/\ Settled(i)
         /\ Val(ui.sends[i].reply).response.status = 200
         /\ "rawData" \in DOMAIN Val(ui.sends[i].reply).response
         /\ IsDegraded(Val(ui.sends[i].reply).response.rawData))
        => (/\ Val(ui.sends[i].reply).message.role = "assistant"
            /\ Val(ui.sends[i].reply).message.content = "narration")

Outstanding(u) == Cardinality({i \in 1..Len(u.sends) : u.sends[i].pc = "posted"})

\* C28: the component has at most one chat request outstanding at any time;
\* a sendMessage call made while loading is true, a second call made before
\* the component re-renders included, sends no request and appends no message.
C28_OneOutstandingRequest ==
    [][/\ Outstanding(ui') <= 1
       /\ (ui.loading /\ ui'.calls > ui.calls)
            => (ui'.sends = ui.sends /\ ui'.messages = ui.messages)]_vars

\* C29: every sendMessage call with non-blank content that passes the
\* loading guard sends as its body the conversation as it stood before the
\* call followed by the new user message, appends exactly one reply (the
\* assistant message or the error notice) after its user message and sets
\* loading to false, and does so eventually.
C29_EveryCallAnswered ==
    /\ [][Len(ui'.sends) > Len(ui.sends)
            => ui'.sends[Len(ui'.sends)].body
                 = Append(ui.messages, ui'.messages[Len(ui'.messages)])]_vars
    /\ [][\A i \in 1..Len(ui.sends) :
            (Posted(i) /\ ui'.sends[i].pc = "settled")
                => (/\ ui'.messages = Append(ui.messages, Val(ui'.sends[i].reply).message)
                    /\ ~ui'.loading)]_vars
    /\ \A i \in 1..MaxCalls : Posted(i) ~> (Settled(i) /\ ~ui.loading)

====
